---- MODULE Spec2Model ----
(***************************************************************************)
(* Model of generate_readme.py: the star-history aggregator                *)
(* (fetch_repo_stargazers_history, aggregate_star_history), the label      *)
(* layout of generate_star_trend_svg and the chart/ranking part of         *)
(* generate_readme.                                                        *)
(*                                                                         *)
(* Strings that the code slices or compares (timestamps, dates) are        *)
(* sequences of character codes; Python compares them code point by code   *)
(* point, which LexLess does.                                              *)
(***************************************************************************)
EXTENDS Integers, Sequences, FiniteSets, TLC

VARIABLES
    repos,           \* aggregate_star_history: the `repos` argument
    today,           \* datetime.now().strftime('%Y-%m-%d') during the run
    agg_pc,          \* "idle" | "loop" | "returned"
    agg_i,           \* index of the next entry of sorted_repos
    all_stargazers,  \* list of {'starred_at', 'repo'}
    fetched,         \* what fetch_repo_stargazers_history returned, per repo visited
    star_history,    \* the cumulative list: aggregate's result, the chart's `history`
    repo_creations,  \* date -> list of repository names
    svg_pc,          \* generate_star_trend_svg: "idle" | "loop" | "returned"
    svg_i,           \* index (from 1) of the next data point of the loop of line 227
    label_boxes,     \* the boxes placed so far, (x_min, x_max, y_min, y_max)
    labels,          \* per placed box: the label drawn and how the search ended
    markers,         \* indices of the plain points that got a circle
    svg_result,      \* the returned text: "" or the chart
    files,           \* the star-history-*.svg files of the directory
    files_before,    \* the files when the run of generate_readme began
    rd_pc,           \* generate_readme: "idle" | "ranked" | "aggregated" | "done"
    use_mock,        \* the use_mock argument
    pinned_repo_names,
    own_repos,       \* the non-fork repositories, with ranking_score and is_pinned
    top_repos,
    total_stars,
    star_chart_svg,
    star_chart_filename,  \* "" when no chart was written
    removed,         \* the files os.remove deleted in this run
    remove_failed,   \* the files for which os.remove raised OSError
    readme_rows,     \* the rows of the repository table: name and stars shown
    readme_chart     \* the file the document's chart section links, "" without section

aggVars == <<repos, today, agg_pc, agg_i, all_stargazers, fetched>>

svgVars == <<svg_pc, svg_i, label_boxes, labels, markers, svg_result>>

rdVars == <<files, files_before, rd_pc, use_mock, pinned_repo_names, own_repos,
            top_repos, total_stars, star_chart_svg, star_chart_filename, removed,
            remove_failed, readme_rows, readme_chart>>

vars == <<aggVars, star_history, repo_creations, svgVars, rdVars>>

(***************************************************************************)
(* Bounds of the model.                                                    *)
(***************************************************************************)
MaxStars == 3        \* largest stargazers_count of a repository
MaxFetched == 2      \* longest list of stargazers the API holds for a repository
MaxPoints == 5       \* longest series handed to generate_star_trend_svg
MaxLabels == 3       \* most creation dates of a series
MaxNames == 10       \* most repositories created on one date
MaxClock == 2        \* the seconds of the clock at which generate_readme may run
MaxSameDay == 21     \* most repositories created on one date, in SpecLabel
MaxAnnotated == 2    \* most creation dates of a series, in SpecLabel


(***************************************************************************)
(* Strings.                                                                *)
(***************************************************************************)
Ascii ==
    ("-" :> 45) @@ (":" :> 58) @@ ("T" :> 84) @@ ("Z" :> 90) @@ ("0" :> 48)
        @@ ("a" :> 97)

RECURSIVE Digits(_, _)
\* n as w decimal digits, zero padded (strftime's %Y, %m, %d, and the API's fields)
Digits(n, w) ==
    IF w = 0 THEN <<>>
    ELSE Digits(n \div 10, w - 1) \o <<Ascii["0"] + (n % 10)>>

\* strftime('%Y-%m-%d')
FormatDate(y, m, d) ==
    Digits(y, 4) \o <<Ascii["-"]>> \o Digits(m, 2) \o <<Ascii["-"]>> \o Digits(d, 2)

\* the suffix "T00:00:00Z" of a synthetic event
MidnightSuffix ==
    <<Ascii["T"]>> \o Digits(0, 2) \o <<Ascii[":"]>> \o Digits(0, 2)
        \o <<Ascii[":"]>> \o Digits(0, 2) \o <<Ascii["Z"]>>

\* an ISO timestamp as the API sends it, at hour h
IsoStamp(y, m, d, h) ==
    FormatDate(y, m, d) \o <<Ascii["T"]>> \o Digits(h, 2) \o <<Ascii[":"]>>
        \o Digits(0, 2) \o <<Ascii[":"]>> \o Digits(0, 2) \o <<Ascii["Z"]>>

\* s[:n]
Prefix(s, n) == SubSeq(s, 1, IF Len(s) < n THEN Len(s) ELSE n)

\* a < b for Python strings
LexLess(a, b) ==
    \E k \in 1..Len(b) :
        /\ k - 1 <= Len(a)
        /\ \A j \in 1..(k - 1) : a[j] = b[j]
        /\ (Len(a) = k - 1 \/ a[k] < b[k])

LexLeq(a, b) == a = b \/ LexLess(a, b)

IsDigit(c) == c >= Ascii["0"] /\ c <= Ascii["0"] + 9

DaysInMonth(y, m) ==
    IF m \in {4, 6, 9, 11} THEN 30
    ELSE IF m # 2 THEN 31
    ELSE IF (y % 4 = 0 /\ y % 100 # 0) \/ y % 400 = 0 THEN 29 ELSE 28

\* a valid YYYY-MM-DD calendar date
IsValidDate(s) ==
    /\ Len(s) = 10
    /\ s[5] = Ascii["-"] /\ s[8] = Ascii["-"]
    /\ \A i \in {1, 2, 3, 4, 6, 7, 9, 10} : IsDigit(s[i])
    /\ LET v(i) == s[i] - Ascii["0"]
           y == 1000 * v(1) + 100 * v(2) + 10 * v(3) + v(4)
           m == 10 * v(6) + v(7)
           d == 10 * v(9) + v(10)
       IN  y >= 1 /\ m \in 1..12 /\ d >= 1 /\ d <= DaysInMonth(y, m)

(***************************************************************************)
(* Inputs.                                                                 *)
(***************************************************************************)
\* a repository name of n characters
RepoName(n) == [i \in 1..n |-> Ascii["a"]]

\* repository names, by position in `repos`: a short and a long one
Names == <<RepoName(3), RepoName(40)>>

D1 == FormatDate(2024, 1, 1)
D2 == FormatDate(2024, 1, 2)

\* timestamps the stargazers API may return; the last is malformed
\* ("2024-1-5T09:00:00Z", whose [:10] is "2024-1-5T0")
Stamps ==
    { IsoStamp(2024, 1, 3, 7),
      Digits(2024, 4) \o <<Ascii["-"]>> \o Digits(1, 1) \o <<Ascii["-"]>>
        \o Digits(5, 1) \o SubSeq(IsoStamp(2024, 1, 1, 9), 11, 20) }

\* (created_at, updated_at) of a repository record; "" when the key is absent
RepoDates ==
    { <<IsoStamp(2024, 1, 1, 12), IsoStamp(2024, 1, 4, 0)>>,
      <<IsoStamp(2024, 1, 2, 12), IsoStamp(2024, 1, 4, 0)>>,
      <<<<>>, IsoStamp(2024, 1, 4, 0)>>,
      <<<<>>, <<>>>> }

Todays == { FormatDate(2024, 1, 6) }

RECURSIVE SeqsUpTo(_, _)
\* all sequences over S of length at most n
SeqsUpTo(S, n) ==
    IF n = 0 THEN {<<>>}
    ELSE LET shorter == SeqsUpTo(S, n - 1)
         IN  shorter \cup { Append(s, x) : s \in shorter, x \in S }

\* one item of a stargazers page; an item may lack the 'starred_at' key
Items ==
    { [has_starred_at |-> TRUE, starred_at |-> s] : s \in Stamps }
        \cup { [has_starred_at |-> FALSE, starred_at |-> <<>>] }

RemoteLists == SeqsUpTo(Items, MaxFetched)

RepoRecords ==
    { [stargazers_count |-> c, created_at |-> dd[1], updated_at |-> dd[2]] :
        c \in 0..MaxStars, dd \in RepoDates }

\* the lists of repositories, the i-th named Names[i]
RepoLists ==
    UNION { { [i \in 1..n |-> [name |-> Names[i],
                               stargazers_count |-> f[i].stargazers_count,
                               created_at |-> f[i].created_at,
                               updated_at |-> f[i].updated_at]] :
                f \in [1..n -> RepoRecords] } : n \in 0..Len(Names) }

(***************************************************************************)
(* Helpers shared by the operations.                                       *)
(***************************************************************************)
RECURSIVE SumSeq(_)
SumSeq(s) == IF s = <<>> THEN 0 ELSE s[1] + SumSeq(Tail(s))

\* sorted(s, key=..., reverse=True) for the keys k[i] of s[i]: descending and
\* stable, equal keys keep their original order
SortedDesc(s, k) ==
    LET before(i) == { j \in 1..Len(s) : k[j] > k[i] \/ (k[j] = k[i] /\ j < i) }
    IN  [p \in 1..Len(s) |->
            s[CHOOSE i \in 1..Len(s) : Cardinality(before(i)) = p - 1]]

RECURSIVE SortedStringsReversed(_)
\* sorted(S, reverse=True)
SortedStringsReversed(S) ==
    IF S = {} THEN <<>>
    ELSE LET m == CHOOSE x \in S : \A y \in S : LexLeq(y, x)
         IN  <<m>> \o SortedStringsReversed(S \ {m})

RECURSIVE SortedStrings(_)
\* sorted(S) for a set of strings
SortedStrings(S) ==
    IF S = {} THEN <<>>
    ELSE LET m == CHOOSE x \in S : \A y \in S : LexLeq(x, y)
         IN  <<m>> \o SortedStrings(S \ {m})

(***************************************************************************)
(* fetch_repo_stargazers_history                                           *)
(***************************************************************************)
per_page == 100
max_per_repo == 100

\* the page the API serves for ?page=p&per_page=100 when it holds `remote`
PageOf(remote, p) ==
    SubSeq(remote, (p - 1) * per_page + 1,
           IF Len(remote) < p * per_page THEN Len(remote) ELSE p * per_page)

\* lines 46-51: the items of a page that carry 'starred_at'
PageStargazers(data, repo) ==
    LET kept == SelectSeq(data, LAMBDA item : item.has_starred_at)
    IN  [i \in 1..Len(kept) |-> [starred_at |-> kept[i].starred_at, repo |-> repo]]

RECURSIVE FetchLoop(_, _, _, _, _, _)
\* the while loop of lines 37-60 from page `page` on; the request for page
\* fail_page raises (0: no request fails) and the except clause returns what
\* was collected
FetchLoop(repo, remote, fail_page, max_stars, page, stargazers) ==
    IF Len(stargazers) >= max_stars THEN stargazers
    ELSE IF page = fail_page THEN stargazers
    ELSE LET data == PageOf(remote, page)
             got == stargazers \o PageStargazers(data, repo)
         IN  IF data = <<>> THEN stargazers
             ELSE IF Len(data) < per_page THEN got
             ELSE FetchLoop(repo, remote, fail_page, max_stars, page + 1, got)

fetch_repo_stargazers_history(repo, remote, fail_page, max_stars) ==
    FetchLoop(repo, remote, fail_page, max_stars, 1, <<>>)

(***************************************************************************)
(* aggregate_star_history                                                  *)
(***************************************************************************)
\* line 81
sorted_repos(rs) ==
    SortedDesc(rs, [i \in 1..Len(rs) |-> rs[i].stargazers_count])

\* line 87
CreatedDate(repo) == Prefix(repo.created_at, 10)

\* line 102 without its middle operand: created_at or the current date
FallbackDateNoUpdated(repo, now) ==
    IF CreatedDate(repo) # <<>> THEN CreatedDate(repo) ELSE now

\* line 102
FallbackDate(repo, now) ==
    IF CreatedDate(repo) # <<>> THEN CreatedDate(repo)
    ELSE IF Prefix(repo.updated_at, 10) # <<>> THEN Prefix(repo.updated_at, 10)
    ELSE now

\* Backfill with the subtraction of line 100 forgotten: star_count synthetic
\* events whatever was fetched
BackfillAll(repo, got, now) ==
    [i \in 1..repo.stargazers_count |->
        [starred_at |-> FallbackDate(repo, now) \o MidnightSuffix,
         repo |-> repo.name]]

\* lines 100-107: the synthetic events for a repository of which `got` real
\* events were fetched
Backfill(repo, got, now) ==
    LET missing_stars == repo.stargazers_count - got
    IN  IF missing_stars > 0
        THEN [i \in 1..missing_stars |->
                [starred_at |-> FallbackDate(repo, now) \o MidnightSuffix,
                 repo |-> repo.name]]
        ELSE <<>>

\* lines 90-91
TrackCreation(creations, repo) ==
    LET created_at == CreatedDate(repo)
    IN  IF created_at = <<>> THEN creations
        ELSE IF created_at \in DOMAIN creations
             THEN [creations EXCEPT ![created_at] = Append(@, repo.name)]
             ELSE [d \in DOMAIN creations \cup {created_at} |->
                     IF d = created_at THEN <<repo.name>> ELSE creations[d]]

\* line 116
EventDate(star) == Prefix(star.starred_at, 10)

\* DailyStars without lines 119-121
DailyStarsEventsOnly(stargazers, creations) ==
    LET dates == { EventDate(stargazers[i]) : i \in 1..Len(stargazers) }
    IN  [d \in dates |->
            Cardinality({ i \in 1..Len(stargazers) : EventDate(stargazers[i]) = d })]

\* lines 114-121: date -> number of events, creation dates forced in with 0
DailyStars(stargazers, creations) ==
    LET dates == { EventDate(stargazers[i]) : i \in 1..Len(stargazers) }
    IN  [d \in dates \cup DOMAIN creations |->
            Cardinality({ i \in 1..Len(stargazers) : EventDate(stargazers[i]) = d })]

RECURSIVE RunningTotalReset(_, _, _)
\* RunningTotal with `total = daily_stars[date]` for `total += daily_stars[date]`
RunningTotalReset(sorted_dates, daily_stars, total) ==
    IF sorted_dates = <<>> THEN <<>>
    ELSE LET date == Head(sorted_dates)
             t == daily_stars[date]
         IN  <<[date |-> date, stars |-> t]>>
                \o RunningTotalReset(Tail(sorted_dates), daily_stars, t)

RECURSIVE RunningTotal(_, _, _)
\* lines 126-133
RunningTotal(sorted_dates, daily_stars, total) ==
    IF sorted_dates = <<>> THEN <<>>
    ELSE LET date == Head(sorted_dates)
             t == total + daily_stars[date]
         IN  <<[date |-> date, stars |-> t]>>
                \o RunningTotal(Tail(sorted_dates), daily_stars, t)

\* lines 109-137: the first component of the returned tuple
Cumulative(stargazers, creations) ==
    IF stargazers = <<>> THEN <<>>
    ELSE LET daily_stars == DailyStars(stargazers, creations)
         IN  RunningTotal(SortedStrings(DOMAIN daily_stars), daily_stars, 0)

ReadmeIdle ==
    /\ files = {}
    /\ files_before = {}
    /\ rd_pc = "off"
    /\ use_mock = FALSE
    /\ pinned_repo_names = {}
    /\ own_repos = <<>>
    /\ top_repos = <<>>
    /\ total_stars = 0
    /\ star_chart_svg = ""
    /\ star_chart_filename = <<>>
    /\ removed = {}
    /\ remove_failed = {}
    /\ readme_rows = <<>>
    /\ readme_chart = <<>>

SvgIdle ==
    /\ svg_pc = "idle"
    /\ svg_i = 1
    /\ label_boxes = <<>>
    /\ labels = <<>>
    /\ markers = {}
    /\ svg_result = ""

\* lines 85-107: one iteration of the loop, for a repository of which the API
\* holds `remote` and the request for page fail_page fails
AggStep(st, repo, remote, fail_page, now) ==
    LET stargazers ==
            IF repo.stargazers_count = 0 THEN <<>>
            ELSE fetch_repo_stargazers_history(repo.name, remote, fail_page,
                                               max_per_repo)
    IN  [ all_stargazers |->
              IF repo.stargazers_count = 0 THEN st.all_stargazers
              ELSE st.all_stargazers \o stargazers
                      \o Backfill(repo, Len(stargazers), now),
          repo_creations |-> TrackCreation(st.repo_creations, repo),
          fetched |-> Append(st.fetched, stargazers) ]

RECURSIVE AggLoop(_, _, _, _, _)
\* lines 84-107 from the i-th entry of sorted_repos on
AggLoop(sr, outcomes, now, i, st) ==
    IF i > Len(sr) THEN st
    ELSE AggLoop(sr, outcomes, now, i + 1,
                 AggStep(st, sr[i], outcomes[i].remote, outcomes[i].fail_page, now))

\* the whole function: outcomes[i] is what the API does for the i-th entry
\* of sorted_repos
aggregate_star_history(rs, outcomes, now) ==
    LET st == AggLoop(sorted_repos(rs), outcomes, now, 1,
                      [all_stargazers |-> <<>>, repo_creations |-> <<>>,
                       fetched |-> <<>>])
    IN  [ history |-> Cumulative(st.all_stargazers, st.repo_creations),
          repo_creations |-> st.repo_creations,
          all_stargazers |-> st.all_stargazers ]

AggState == [all_stargazers |-> all_stargazers, repo_creations |-> repo_creations,
             fetched |-> fetched]

AggInit ==
    /\ repos \in RepoLists
    /\ today \in Todays
    /\ agg_pc = "loop"
    /\ agg_i = 1
    /\ all_stargazers = <<>>
    /\ repo_creations = <<>>
    /\ fetched = <<>>
    /\ star_history = <<>>
    /\ SvgIdle
    /\ ReadmeIdle

\* one iteration of the loop of lines 84-107 for a repository without stars
AggSkipRepo ==
    /\ agg_pc = "loop" /\ agg_i <= Len(repos)
    /\ LET repo == sorted_repos(repos)[agg_i]
           st == AggStep(AggState, repo, <<>>, 0, today)
       IN  /\ repo.stargazers_count = 0
           /\ repo_creations' = st.repo_creations
           /\ fetched' = st.fetched
    /\ agg_i' = agg_i + 1
    /\ UNCHANGED <<repos, today, agg_pc, all_stargazers, star_history, svgVars, rdVars>>

\* one iteration of the loop of lines 84-107 for a repository with stars: the
\* API holds `remote` and the request for page fail_page fails
AggFetchRepo ==
    /\ agg_pc = "loop" /\ agg_i <= Len(repos)
    /\ LET repo == sorted_repos(repos)[agg_i]
       IN  /\ repo.stargazers_count # 0
           /\ \E remote \in RemoteLists, fail_page \in 0..1 :
                LET st == AggStep(AggState, repo, remote, fail_page, today)
                IN  /\ all_stargazers' = st.all_stargazers
                    /\ fetched' = st.fetched
                    /\ repo_creations' = st.repo_creations
    /\ agg_i' = agg_i + 1
    /\ UNCHANGED <<repos, today, agg_pc, star_history, svgVars, rdVars>>

\* lines 109-137
AggReturn ==
    /\ agg_pc = "loop" /\ agg_i > Len(repos)
    /\ star_history' = Cumulative(all_stargazers, repo_creations)
    /\ agg_pc' = "returned"
    /\ UNCHANGED <<repos, today, agg_i, all_stargazers, repo_creations, fetched, svgVars, rdVars>>

AggNext == AggSkipRepo \/ AggFetchRepo \/ AggReturn

SpecAgg == AggInit /\ [][AggNext]_vars

(***************************************************************************)
(* generate_star_trend_svg: the label layout.                              *)
(*                                                                         *)
(* The code computes coordinates as floats, x = 60 + (i / (n - 1)) * 800   *)
(* and y = 320 - (stars / star_range) * 260.  The model keeps them exact:  *)
(* every horizontal quantity is multiplied by n - 1 and every vertical     *)
(* quantity by star_range, so that all of them are integers and every      *)
(* comparison of the code compares two quantities of the same scale.       *)
(***************************************************************************)
width == 900
height == 400
padding_left == 60
padding_right == 40
padding_top == 60
padding_bottom == 80
chart_width == width - padding_left - padding_right
chart_height == height - padding_top - padding_bottom
label_line_height == 12
label_padding == 4
max_label_width == 220
min_label_width == 80
label_position_offsets == <<0, 1, -1, 2, -2, 3, -3, 4, -4, 5, -5, 6, -6, 7, -7, 8, -8>>

\* generate_star_trend_svg: "" for fewer than two points (lines 142-143),
\* the chart otherwise (line 305)
SvgText(history) == IF Len(history) < 2 THEN "" ELSE "<svg>"

Max(a, b) == IF a > b THEN a ELSE b
Min(a, b) == IF a < b THEN a ELSE b

RECURSIVE MaxSeq(_)
MaxSeq(s) == IF Len(s) = 1 THEN s[1] ELSE Max(s[1], MaxSeq(Tail(s)))

\* lines 159-161
StarRange(history) ==
    LET max_stars == MaxSeq([i \in 1..Len(history) |-> history[i].stars])
    IN  IF max_stars > 0 THEN max_stars ELSE 1

\* lines 165-166, times n - 1; index counts from 0
get_x(index, n) == padding_left * (n - 1) + index * chart_width

\* lines 168-169, times star_range
get_y(star_count, star_range) ==
    (padding_top + chart_height) * star_range - star_count * chart_height

\* lines 222-224
boxes_overlap(box_a, box_b) ==
    ~(box_a[2] < box_b[1] \/ box_a[1] > box_b[2]
        \/ box_a[4] < box_b[3] \/ box_a[3] > box_b[4])

\* lines 235-236: the lengths of the label's lines, "📦 " + repo for every
\* repository and then the date
LabelLineLengths(names, date) ==
    [i \in 1..(Len(names) + 1) |->
        IF i <= Len(names) THEN 2 + Len(names[i]) ELSE Len(date)]

\* line 237
LabelHeight(names, date) == label_line_height * Len(LabelLineLengths(names, date))

\* lines 238-239
LabelWidth(names, date) ==
    LET max_line_length == MaxSeq(LabelLineLengths(names, date))
    IN  Min(max_label_width, Max(min_label_width, max_line_length * 6))

\* line 241, for x times sx
PlaceRight(x, label_width, sx) == x < (width - (label_width + padding_right)) * sx

\* lines 248-250, times sy
MinTop(sy) == (padding_top + label_padding) * sy
MaxTop(label_height, sy) ==
    (padding_top + chart_height - label_height - label_padding) * sy
ClampTop(top, label_height, sy) ==
    Max(MinTop(sy), Min(top, MaxTop(label_height, sy)))

\* lines 247-250: y is times sy; label_height is a multiple of 12
BaseTop(y, label_height, sy) ==
    ClampTop(y - (label_height \div 2) * sy, label_height, sy)

\* lines 260-261
CandidateTop(base_top, offset, label_height, sy) ==
    LET step == (label_height + label_padding * 2) * sy
    IN  ClampTop(base_top + offset * step, label_height, sy)

\* lines 256 and 262 without the label_padding above and below
BoxAtUnpadded(x_min, x_max, top, label_height, sy) ==
    <<x_min, x_max, top, top + label_height * sy>>

\* lines 256 and 262
BoxAt(x_min, x_max, top, label_height, sy) ==
    <<x_min, x_max, top - label_padding * sy, top + (label_height + label_padding) * sy>>

\* the candidate_box of line 263 is blocked when any placed box overlaps it,
\* here: when the box placed last does
BlockedByLast(candidate_box, boxes) ==
    boxes # <<>> /\ boxes_overlap(candidate_box, boxes[Len(boxes)])

\* line 263: any(boxes_overlap(candidate_box, existing) for existing in label_boxes)
Blocked(candidate_box, boxes) ==
    \E e \in 1..Len(boxes) : boxes_overlap(candidate_box, boxes[e])

\* lines 259-266: the position in label_position_offsets of the offset at
\* which the loop breaks, 0 when it runs to its end
AcceptedOffset(cands, boxes) ==
    IF \A k \in 1..Len(cands) : Blocked(cands[k], boxes) THEN 0
    ELSE CHOOSE k \in 1..Len(cands) :
            /\ ~Blocked(cands[k], boxes)
            /\ \A j \in 1..(k - 1) : Blocked(cands[j], boxes)

\* the fallback of the search is the candidate of the last offset
FallbackLastCandidate(base_top, cands) == cands[Len(cands)]

\* lines 255-256: label_top and label_box keep their initial value, the base
\* position, when the loop accepts no candidate
Fallback(base_top, cands) == base_top

\* lines 234-268 for the point of 0-based index `index`: the label placed
PlaceLabel(index, date, star_count, names, n, star_range, boxes) ==
    LET sx == n - 1
        sy == star_range
        x == get_x(index, n)
        y == get_y(star_count, star_range)
        label_height == LabelHeight(names, date)
        label_width == LabelWidth(names, date)
        place_right == PlaceRight(x, label_width, sx)
        label_x == IF place_right THEN x + 12 * sx ELSE x - 12 * sx
        x_min == IF place_right THEN label_x ELSE label_x - label_width * sx
        x_max == IF place_right THEN label_x + label_width * sx ELSE label_x
        base_top == BaseTop(y, label_height, sy)
        tops == [k \in 1..Len(label_position_offsets) |->
                    CandidateTop(base_top, label_position_offsets[k], label_height, sy)]
        cands == [k \in 1..Len(tops) |-> BoxAt(x_min, x_max, tops[k], label_height, sy)]
        accepted == AcceptedOffset(cands, boxes)
        label_top == IF accepted = 0 THEN Fallback(base_top, tops) ELSE tops[accepted]
    IN  [ date |-> date,
          lines |-> Len(LabelLineLengths(names, date)),
          text_anchor |-> IF place_right THEN "start" ELSE "end",
          label_x |-> label_x,
          label_top |-> label_top,
          label_box |-> BoxAt(x_min, x_max, label_top, label_height, sy),
          base_top |-> base_top,
          accepted |-> accepted ]

\* the lists of names a creation date may carry: one short name (a label of
\* the minimum width), or MaxNames names of which the first is long (a tall
\* label of the maximum width)
NameLists ==
    { <<RepoName(3)>>,
      [i \in 1..MaxNames |-> IF i = 1 THEN RepoName(40) ELSE RepoName(3)] }

\* the running totals of the series handed to the chart
StarLevels == {0, 1, 2}

\* the series aggregate_star_history can return: dates strictly increasing,
\* stars non-decreasing and the last one positive
SvgSeries ==
    UNION { { [i \in 1..n |-> [date |-> FormatDate(2024, 1, i), stars |-> f[i]]] :
                f \in { g \in [1..n -> StarLevels] :
                          /\ \A i \in 1..(n - 1) : g[i] <= g[i + 1]
                          /\ n > 0 => g[n] > 0 } } : n \in 0..MaxPoints }

\* the creation indexes over the dates of a series
CreationIndexes(history) ==
    UNION { [ds -> NameLists] :
              ds \in { c \in SUBSET { history[i].date : i \in 1..Len(history) } :
                        Cardinality(c) <= MaxLabels } }

AggIdle ==
    /\ repos = <<>>
    /\ today \in Todays
    /\ agg_pc = "idle"
    /\ agg_i = 1
    /\ all_stargazers = <<>>
    /\ fetched = <<>>

SvgInit ==
    /\ AggIdle
    /\ star_history \in SvgSeries
    /\ repo_creations \in CreationIndexes(star_history)
    /\ SvgIdle
    /\ ReadmeIdle

\* lines 142-143: no chart for fewer than two points
SvgReturnEmpty ==
    /\ svg_pc = "idle" /\ Len(star_history) < 2
    /\ svg_pc' = "returned"
    /\ svg_result' = SvgText(star_history)
    /\ UNCHANGED <<rdVars, aggVars, star_history, repo_creations, svg_i, label_boxes,
                   labels, markers>>

\* lines 145-224: the fixed part of the chart
SvgBegin ==
    /\ svg_pc = "idle" /\ Len(star_history) >= 2
    /\ svg_pc' = "loop"
    /\ UNCHANGED <<rdVars, aggVars, star_history, repo_creations, svg_i, label_boxes,
                   labels, markers, svg_result>>

\* lines 227-281: a point whose date is a creation date gets a label
SvgCreationPoint ==
    /\ svg_pc = "loop" /\ svg_i <= Len(star_history)
    /\ LET entry == star_history[svg_i]
       IN  /\ entry.date \in DOMAIN repo_creations
           /\ LET placed == PlaceLabel(svg_i - 1, entry.date, entry.stars,
                                       repo_creations[entry.date],
                                       Len(star_history), StarRange(star_history),
                                       label_boxes)
              IN  /\ label_boxes' = Append(label_boxes, placed.label_box)
                  /\ labels' = Append(labels, placed)
    /\ svg_i' = svg_i + 1
    /\ UNCHANGED <<rdVars, aggVars, star_history, repo_creations, svg_pc, markers, svg_result>>

\* lines 282-286: any other point gets a circle when it is every Nth or the last
SvgRegularPoint ==
    /\ svg_pc = "loop" /\ svg_i <= Len(star_history)
    /\ star_history[svg_i].date \notin DOMAIN repo_creations
    /\ LET i == svg_i - 1
           n == Len(star_history)
       IN  markers' = IF i % Max(1, n \div 20) = 0 \/ i = n - 1
                      THEN markers \cup {svg_i} ELSE markers
    /\ svg_i' = svg_i + 1
    /\ UNCHANGED <<rdVars, aggVars, star_history, repo_creations, svg_pc, label_boxes,
                   labels, svg_result>>

\* lines 288-305
SvgReturn ==
    /\ svg_pc = "loop" /\ svg_i > Len(star_history)
    /\ svg_pc' = "returned"
    /\ svg_result' = SvgText(star_history)
    /\ UNCHANGED <<rdVars, aggVars, star_history, repo_creations, svg_i, label_boxes,
                   labels, markers>>

SvgNext ==
    SvgReturnEmpty \/ SvgBegin \/ SvgCreationPoint \/ SvgRegularPoint \/ SvgReturn

SpecSvg == SvgInit /\ [][SvgNext]_vars

\* the lists of names of a creation date whose label is measured: one short
\* name (6 x the longest line is below the minimum width), one name of 30
\* characters (between minimum and maximum), MaxSameDay names of which the
\* first is long (above the maximum, and more lines than the chart is high)
MeasuredNameLists ==
    { <<RepoName(3)>>, <<RepoName(30)>>,
      [i \in 1..MaxSameDay |-> IF i = 1 THEN RepoName(40) ELSE RepoName(3)] }

\* the creation indexes over at most MaxAnnotated dates of a series
MeasuredIndexes(history) ==
    UNION { [ds -> MeasuredNameLists] :
              ds \in { c \in SUBSET { history[i].date : i \in 1..Len(history) } :
                        Cardinality(c) <= MaxAnnotated } }

LabelInit ==
    /\ AggIdle
    /\ star_history \in SvgSeries
    /\ repo_creations \in MeasuredIndexes(star_history)
    /\ SvgIdle
    /\ ReadmeIdle

\* generate_star_trend_svg on series with few, variously sized labels
SpecLabel == LabelInit /\ [][SvgNext]_vars

(***************************************************************************)
(* generate_readme: ranking, star history, chart file and document.        *)
(*                                                                         *)
(* A chart file star-history-<timestamp>.svg is named in the model by its  *)
(* timestamp, the 14 digits of strftime('%Y%m%d%H%M%S'): all names share   *)
(* the prefix and the suffix, so sorted(glob(...)) orders them as it       *)
(* orders the timestamps.                                                  *)
(***************************************************************************)
PinBonus == 6

\* line 522: the timestamp at second t of the clock
FormatTimestamp(t) ==
    Digits(2024, 4) \o Digits(1, 2) \o Digits(1, 2) \o Digits(0, 2) \o Digits(0, 2)
        \o Digits(t, 2)

FileNames == { FormatTimestamp(t) : t \in 1..MaxClock }

\* lines 452-471
MockRepos ==
    << [name |-> RepoName(10), stargazers_count |-> 5, created_at |-> <<>>,
        updated_at |-> IsoStamp(2026, 2, 7, 0), fork |-> FALSE],
       [name |-> RepoName(15), stargazers_count |-> 3, created_at |-> <<>>,
        updated_at |-> IsoStamp(2026, 2, 6, 0), fork |-> FALSE] >>

\* what fetch_user_repos may return: the i-th repository is named Names[i]
\* and was created on the i-th day of 2024
ReadmeRepoLists ==
    UNION { { [i \in 1..n |-> [name |-> Names[i],
                               stargazers_count |-> f[i][1],
                               created_at |-> IsoStamp(2024, 1, i, 12),
                               updated_at |-> IsoStamp(2024, 1, 4, 0),
                               fork |-> f[i][2]]] :
                f \in [1..n -> (0..MaxStars) \X BOOLEAN] } : n \in 0..Len(Names) }

\* what the stargazers API may do for a repository during generate_readme
ReadmeOutcomes ==
    { [remote |-> r, fail_page |-> p] :
        r \in SeqsUpTo({ [has_starred_at |-> TRUE,
                          starred_at |-> IsoStamp(2024, 1, 3, 7)] }, 1),
        p \in 0..1 }

\* line 478
OwnRepos(rs) == SelectSeq(rs, LAMBDA r : ~r.fork)

\* lines 486-497: pinned is empty in mock mode
RankingScore(repo, pinned) ==
    IF repo.name \in pinned THEN repo.stargazers_count + PinBonus
    ELSE repo.stargazers_count

\* lines 482-498: every own repository gets ranking_score and is_pinned
Ranked(own, pinned) ==
    [i \in 1..Len(own) |->
        [name |-> own[i].name,
         stargazers_count |-> own[i].stargazers_count,
         created_at |-> own[i].created_at,
         updated_at |-> own[i].updated_at,
         fork |-> own[i].fork,
         ranking_score |-> RankingScore(own[i], pinned),
         is_pinned |-> own[i].name \in pinned]]

\* lines 501-504
TopRepos(ranked) ==
    LET sorted == SortedDesc(ranked, [i \in 1..Len(ranked) |-> ranked[i].ranking_score])
    IN  Prefix(SelectSeq(sorted, LAMBDA r : r.stargazers_count > 0 \/ r.is_pinned), 10)

\* line 507
TotalStars(own) == SumSeq([i \in 1..Len(own) |-> own[i].stargazers_count])

\* a row that shows the ranking_score for the stars
RowOfScore(repo) == [name |-> repo.name, stars |-> repo.ranking_score]

\* lines 626-635: what a row of the table shows of a repository
RowOf(repo) == [name |-> repo.name, stars |-> repo.stargazers_count]

\* lines 625-635
Rows(top) == [i \in 1..Len(top) |-> RowOf(top[i])]

\* the test of lines 519 and 691 without its length part
HasChartNonEmpty(history) == history # <<>>

\* lines 519 and 691
HasChart(history) == history # <<>> /\ Len(history) >= 2

ReadmeInit ==
    /\ AggIdle
    /\ star_history = <<>>
    /\ repo_creations = <<>>
    /\ SvgIdle
    /\ files \in SUBSET FileNames
    /\ files_before = files
    /\ rd_pc = "idle"
    /\ use_mock = FALSE
    /\ pinned_repo_names = {}
    /\ own_repos = <<>>
    /\ top_repos = <<>>
    /\ total_stars = 0
    /\ star_chart_svg = ""
    /\ star_chart_filename = <<>>
    /\ removed = {}
    /\ remove_failed = {}
    /\ readme_rows = <<>>
    /\ readme_chart = <<>>

\* lines 438-507 in mock mode
ReadmeStartMock ==
    /\ rd_pc = "idle"
    /\ use_mock' = TRUE
    /\ repos' = MockRepos
    /\ pinned_repo_names' = {}
    /\ own_repos' = Ranked(OwnRepos(MockRepos), {})
    /\ top_repos' = TopRepos(own_repos')
    /\ total_stars' = TotalStars(own_repos')
    /\ rd_pc' = "ranked"
    /\ UNCHANGED <<today, agg_pc, agg_i, all_stargazers, fetched, star_history,
                   repo_creations, svgVars, files, files_before, star_chart_svg,
                   star_chart_filename, removed, remove_failed, readme_rows,
                   readme_chart>>

\* lines 438-507 with the repositories and the pinned names the API returns
ReadmeStart ==
    /\ rd_pc = "idle"
    /\ use_mock' = FALSE
    /\ \E rs \in ReadmeRepoLists,
          pins \in SUBSET { Names[i] : i \in 1..Len(Names) } :
          /\ repos' = rs
          /\ pinned_repo_names' = pins
          /\ own_repos' = Ranked(OwnRepos(rs), pins)
    /\ top_repos' = TopRepos(own_repos')
    /\ total_stars' = TotalStars(own_repos')
    /\ rd_pc' = "ranked"
    /\ UNCHANGED <<today, agg_pc, agg_i, all_stargazers, fetched, star_history,
                   repo_creations, svgVars, files, files_before, star_chart_svg,
                   star_chart_filename, removed, remove_failed, readme_rows,
                   readme_chart>>

\* lines 510-514: the star history is fetched and aggregated
ReadmeAggregate ==
    /\ rd_pc = "ranked"
    /\ ~use_mock /\ total_stars > 0
    /\ \E outcomes \in [1..Len(own_repos) -> ReadmeOutcomes] :
          LET r == aggregate_star_history(own_repos, outcomes, today)
          IN  /\ star_history' = r.history
              /\ repo_creations' = r.repo_creations
              /\ all_stargazers' = r.all_stargazers
    /\ rd_pc' = "aggregated"
    /\ UNCHANGED <<repos, today, agg_pc, agg_i, fetched, svgVars, files,
                   files_before, use_mock, pinned_repo_names, own_repos, top_repos,
                   total_stars, star_chart_svg, star_chart_filename, removed,
                   remove_failed, readme_rows, readme_chart>>

\* lines 510-512: mock mode or no stars, the history stays empty
ReadmeNoHistory ==
    /\ rd_pc = "ranked"
    /\ ~(~use_mock /\ total_stars > 0)
    /\ star_history' = <<>>
    /\ repo_creations' = <<>>
    /\ all_stargazers' = <<>>
    /\ rd_pc' = "aggregated"
    /\ UNCHANGED <<repos, today, agg_pc, agg_i, fetched, svgVars, files,
                   files_before, use_mock, pinned_repo_names, own_repos, top_repos,
                   total_stars, star_chart_svg, star_chart_filename, removed,
                   remove_failed, readme_rows, readme_chart>>

\* lines 516-537 and 539-729 with a chart: the chart is written at second t
\* of the clock, the older files are removed except those for which
\* os.remove fails, and the document links the file written
ReadmeChart ==
    /\ rd_pc = "aggregated"
    /\ HasChart(star_history)
    /\ \E t \in 1..MaxClock :
          LET name == FormatTimestamp(t)
              written == files \cup {name}
              all_star_svgs == SortedStrings(written)
              old == IF Len(all_star_svgs) > 1
                     THEN { all_star_svgs[k] : k \in 1..(Len(all_star_svgs) - 1) }
                     ELSE {}
          IN  /\ star_chart_filename' = name
              /\ \E failing \in SUBSET old :
                    /\ removed' = old \ failing
                    /\ remove_failed' = failing
                    /\ files' = written \ (old \ failing)
    /\ star_chart_svg' = SvgText(star_history)
    /\ readme_rows' = Rows(top_repos)
    /\ readme_chart' = star_chart_filename'
    /\ rd_pc' = "done"
    /\ UNCHANGED <<aggVars, star_history, repo_creations, svgVars, files_before,
                   use_mock, pinned_repo_names, own_repos, top_repos, total_stars>>

\* lines 516-519 and 539-729 without a chart
ReadmeNoChart ==
    /\ rd_pc = "aggregated"
    /\ ~HasChart(star_history)
    /\ star_chart_svg' = ""
    /\ star_chart_filename' = <<>>
    /\ readme_rows' = Rows(top_repos)
    /\ readme_chart' = <<>>
    /\ rd_pc' = "done"
    /\ UNCHANGED <<aggVars, star_history, repo_creations, svgVars, files,
                   files_before, use_mock, pinned_repo_names, own_repos, top_repos,
                   total_stars, removed, remove_failed>>

\* lines 732-749: main writes README.md and the process ends; the next run
\* starts in the directory as it was left
ReadmeAgain ==
    /\ rd_pc = "done"
    /\ rd_pc' = "idle"
    /\ files_before' = files
    /\ repos' = <<>>
    /\ all_stargazers' = <<>>
    /\ star_history' = <<>>
    /\ repo_creations' = <<>>
    /\ use_mock' = FALSE
    /\ pinned_repo_names' = {}
    /\ own_repos' = <<>>
    /\ top_repos' = <<>>
    /\ total_stars' = 0
    /\ star_chart_svg' = ""
    /\ star_chart_filename' = <<>>
    /\ removed' = {}
    /\ remove_failed' = {}
    /\ readme_rows' = <<>>
    /\ readme_chart' = <<>>
    /\ UNCHANGED <<today, agg_pc, agg_i, fetched, svgVars, files>>

ReadmeNext ==
    \/ ReadmeStartMock \/ ReadmeStart \/ ReadmeAggregate \/ ReadmeNoHistory
    \/ ReadmeChart \/ ReadmeNoChart \/ ReadmeAgain

SpecReadme == ReadmeInit /\ [][ReadmeNext]_vars

(***************************************************************************)
(* Properties of aggregate_star_history (checked under SpecAgg).           *)
(***************************************************************************)
AggReturned == agg_pc = "returned"

HistoryDates == { star_history[i].date : i \in 1..Len(star_history) }

EventsOn(d) == { i \in 1..Len(all_stargazers) : EventDate(all_stargazers[i]) = d }

EventsUpTo(d) ==
    { i \in 1..Len(all_stargazers) : LexLeq(EventDate(all_stargazers[i]), d) }

\* the stars value of the last entry; 0 for the empty series
FinalTotal == IF star_history = <<>> THEN 0 ELSE star_history[Len(star_history)].stars

DeclaredStars == SumSeq([i \in 1..Len(repos) |-> repos[i].stargazers_count])

\* C1 as stated: whatever the star counts (all zero included), every date that
\* is a key of the returned repo_creations is the date of an entry of the
\* returned history.
C1_CreationDatesInHistory_AnyCounts ==
    AggReturned => DOMAIN repo_creations \subseteq HistoryDates

\* C1 amended: when some repository has a non-zero star count, every date that
\* is a key of the returned repo_creations is the date of an entry of the
\* returned history; when every star count is zero the history is empty.
C1_CreationDatesInHistory ==
    AggReturned =>
        IF \E i \in 1..Len(repos) : repos[i].stargazers_count # 0
        THEN DOMAIN repo_creations \subseteq HistoryDates
        ELSE star_history = <<>>

\* a creation date on which no star event falls is an entry of the history
C1_Witness ==
    /\ AggReturned
    /\ \E d \in DOMAIN repo_creations : EventsOn(d) = {} /\ d \in HistoryDates

\* C3 as stated: whatever the fetches returned, the final running total is
\* the sum of the declared stargazers_count of all repositories.
C3_TotalIsDeclaredSum_AnyFetch ==
    AggReturned => FinalTotal = DeclaredStars

\* C3 amended: the final running total is the sum, over the repositories, of
\* the larger of the declared count c and the number r of fetched timestamps
\* (r real plus c - r synthetic events when r <= c, r real events when
\* r > c; a repository with c = 0 is not fetched and contributes nothing);
\* it is the declared sum when no fetch returns more than the declared count.
C3_TotalIsSumOfMax ==
    AggReturned =>
        LET sr == sorted_repos(repos)
            contribution(i) ==
                IF sr[i].stargazers_count = 0 THEN 0
                ELSE IF Len(fetched[i]) > sr[i].stargazers_count
                     THEN Len(fetched[i]) ELSE sr[i].stargazers_count
        IN  /\ FinalTotal = SumSeq([i \in 1..Len(sr) |-> contribution(i)])
            /\ (\A i \in 1..Len(sr) : Len(fetched[i]) <= sr[i].stargazers_count)
                    => FinalTotal = DeclaredStars

\* a partial fetch (0 < r < c) was backfilled and the total reconciles
C3_Witness ==
    /\ AggReturned
    /\ \E i \in 1..Len(repos) :
          /\ Len(fetched[i]) > 0
          /\ Len(fetched[i]) < sorted_repos(repos)[i].stargazers_count
    /\ FinalTotal = DeclaredStars

\* C4: for a non-empty list of star events in any order, every entry's stars
\* is the number of events dated on or before the entry's date and the last
\* entry's stars is the number of events; 3 events on 2024-01-01 and 2 on
\* 2024-01-02 give [(2024-01-01, 3), (2024-01-02, 5)].
C4_PrefixSum ==
    (AggReturned /\ all_stargazers # <<>>) =>
        /\ star_history # <<>>
        /\ \A i \in 1..Len(star_history) :
              star_history[i].stars = Cardinality(EventsUpTo(star_history[i].date))
        /\ FinalTotal = Len(all_stargazers)
        /\ ( /\ Cardinality(EventsOn(D1)) = 3 /\ Cardinality(EventsOn(D2)) = 2
             /\ Len(all_stargazers) = 5 )
                => star_history = << [date |-> D1, stars |-> 3],
                                     [date |-> D2, stars |-> 5] >>

\* the example of C4 has been aggregated
C4_Witness ==
    /\ AggReturned
    /\ Cardinality(EventsOn(D1)) = 3 /\ Cardinality(EventsOn(D2)) = 2
    /\ star_history = << [date |-> D1, stars |-> 3], [date |-> D2, stars |-> 5] >>

\* C5: the returned series is strictly increasing in date and non-decreasing
\* in stars, and an entry whose date carries no event (a creation date only)
\* has the previous entry's total (0 when it is the first).
C5_SeriesOrdered ==
    AggReturned =>
        /\ \A i, j \in 1..Len(star_history) :
              i < j => /\ LexLess(star_history[i].date, star_history[j].date)
                       /\ star_history[i].stars <= star_history[j].stars
        /\ \A i \in 1..Len(star_history) :
              EventsOn(star_history[i].date) = {} =>
                  star_history[i].stars =
                      IF i = 1 THEN 0 ELSE star_history[i - 1].stars

\* events were supplied out of date order and a creation-only date follows an
\* entry with stars
C5_Witness ==
    /\ AggReturned
    /\ \E i, j \in 1..Len(all_stargazers) :
          i < j /\ LexLess(EventDate(all_stargazers[j]), EventDate(all_stargazers[i]))
    /\ \E i \in 2..Len(star_history) :
          /\ EventsOn(star_history[i].date) = {}
          /\ star_history[i - 1].stars > 0

\* C9: aggregation never returns a series when a star event carries a
\* malformed date: it fails instead, so every event of a returned
\* aggregation has a valid YYYY-MM-DD date and no entry has a malformed key.
C9_MalformedDateFails ==
    AggReturned =>
        /\ \A i \in 1..Len(all_stargazers) : IsValidDate(EventDate(all_stargazers[i]))
        /\ \A i \in 1..Len(star_history) : IsValidDate(star_history[i].date)

\* the number of events lines 96-107 add to all_stargazers for the i-th
\* entry of sorted_repos: the fetched ones and the synthetic ones
SegmentLen(i) ==
    LET repo == sorted_repos(repos)[i]
    IN  IF repo.stargazers_count = 0 THEN 0
        ELSE Max(Len(fetched[i]), repo.stargazers_count)

\* the positions in all_stargazers of the synthetic events of the i-th entry
\* of sorted_repos (i < agg_i): those after its fetched events
SyntheticOf(i) ==
    LET start == SumSeq([j \in 1..(i - 1) |-> SegmentLen(j)])
    IN  (start + Len(fetched[i]) + 1)..(start + SegmentLen(i))

\* C13 as stated: every synthetic event of a repository is dated at the
\* repository's creation date, or at the current date when the repository
\* has no creation date.
C13_SyntheticAtCreationOrToday ==
    \A i \in 1..(agg_i - 1) :
        LET repo == sorted_repos(repos)[i]
        IN  \A k \in SyntheticOf(i) :
                /\ all_stargazers[k].repo = repo.name
                /\ EventDate(all_stargazers[k]) =
                      (IF Prefix(repo.created_at, 10) # <<>>
                       THEN Prefix(repo.created_at, 10) ELSE today)

\* C13 amended: every synthetic event of a repository is dated at the
\* repository's creation date; when it has none, at the date of its
\* updated_at; when it has neither, at the current date. No other date is
\* used, and the event carries the repository's name and midnight as time.
C13_SyntheticAtFallbackDate ==
    \A i \in 1..(agg_i - 1) :
        LET repo == sorted_repos(repos)[i]
            expected == IF Prefix(repo.created_at, 10) # <<>>
                        THEN Prefix(repo.created_at, 10)
                        ELSE IF Prefix(repo.updated_at, 10) # <<>>
                             THEN Prefix(repo.updated_at, 10)
                             ELSE today
        IN  \A k \in SyntheticOf(i) :
                /\ all_stargazers[k].repo = repo.name
                /\ EventDate(all_stargazers[k]) = expected
                /\ all_stargazers[k].starred_at = expected \o MidnightSuffix

\* the aggregation has returned after backfilling three kinds of repository:
\* one without created_at but with updated_at, whose synthetic events carry
\* the updated_at date, and one with neither, dated today
C13_Witness ==
    /\ AggReturned
    /\ \E i \in 1..Len(repos) :
          LET repo == sorted_repos(repos)[i]
          IN  /\ repo.created_at = <<>> /\ repo.updated_at # <<>>
              /\ SyntheticOf(i) # {}
              /\ \A k \in SyntheticOf(i) :
                    EventDate(all_stargazers[k]) = Prefix(repo.updated_at, 10)
    /\ \E i \in 1..Len(repos) :
          LET repo == sorted_repos(repos)[i]
          IN  /\ repo.created_at = <<>> /\ repo.updated_at = <<>>
              /\ SyntheticOf(i) # {}
              /\ \A k \in SyntheticOf(i) : EventDate(all_stargazers[k]) = today

(***************************************************************************)
(* Properties of generate_star_trend_svg (checked under SpecSvg).          *)
(***************************************************************************)
\* the candidate box of the j-th label for the k-th offset of the search
CandidateOf(j, k) ==
    LET sy == StarRange(star_history)
        label_height == label_line_height * labels[j].lines
    IN  BoxAt(labels[j].label_box[1], labels[j].label_box[2],
              CandidateTop(labels[j].base_top, label_position_offsets[k],
                           label_height, sy),
              label_height, sy)

\* the k-th candidate of the j-th label overlaps a box placed before it
CandidateBlocked(j, k) ==
    \E e \in 1..(j - 1) : boxes_overlap(CandidateOf(j, k), label_boxes[e])

\* the search of the j-th label tried every offset and all of them overlapped
Exhausted(j) ==
    /\ labels[j].accepted = 0
    /\ \A k \in 1..Len(label_position_offsets) : CandidateBlocked(j, k)

\* C2: two boxes of label_boxes intersect only if the later one was placed
\* after all 17 candidate offsets were tried and each overlapped a box
\* already placed; a label the search accepted overlaps no earlier box.
C2_OverlapOnlyAfterExhaustion ==
    /\ Len(label_position_offsets) = 17
    /\ Len(labels) = Len(label_boxes)
    /\ \A j \in 1..Len(label_boxes) :
          /\ labels[j].label_box = label_boxes[j]
          /\ \A i \in 1..(j - 1) :
                boxes_overlap(label_boxes[i], label_boxes[j]) => Exhausted(j)
          /\ labels[j].accepted # 0 =>
                \A i \in 1..(j - 1) : ~boxes_overlap(label_boxes[j], label_boxes[i])

\* a dense cluster: a search ran out of offsets and its box overlaps an
\* earlier one, and the third label was moved off its base position to a
\* candidate clear of the boxes before it
C2_Witness ==
    /\ svg_pc = "returned"
    /\ \E j \in 1..Len(label_boxes) : \E i \in 1..(j - 1) :
          Exhausted(j) /\ boxes_overlap(label_boxes[i], label_boxes[j])
    /\ Len(label_boxes) = 3 /\ labels[3].accepted > 1

\* the offsets in the order 0, +1, -1, +2, -2, ..., +8, -8
OffsetsInOrder ==
    /\ Len(label_position_offsets) = 17
    /\ label_position_offsets[1] = 0
    /\ \A m \in 1..8 : /\ label_position_offsets[2 * m] = m
                        /\ label_position_offsets[2 * m + 1] = -m

\* the j-th label sits at the first candidate, in the order of the offsets,
\* that overlaps no box placed before it
FirstFreeUsed(j) ==
    labels[j].accepted # 0 =>
        /\ label_boxes[j] = CandidateOf(j, labels[j].accepted)
        /\ ~CandidateBlocked(j, labels[j].accepted)
        /\ \A k \in 1..(labels[j].accepted - 1) : CandidateBlocked(j, k)

\* C10 as stated: the offsets are tried in the order 0, +1, -1, ..., +8, -8,
\* the first candidate that overlaps no placed box is used, and when every
\* candidate overlaps the label is placed at the candidate of the last
\* offset, whose box is appended.
C10_FallbackIsLastCandidate ==
    /\ OffsetsInOrder
    /\ \A j \in 1..Len(label_boxes) :
          /\ FirstFreeUsed(j)
          /\ labels[j].accepted = 0 =>
                label_boxes[j] = CandidateOf(j, Len(label_position_offsets))

\* C10 amended: the offsets are tried in the order 0, +1, -1, ..., +8, -8,
\* the first candidate that overlaps no placed box is used, and when every
\* candidate overlaps the label is placed at the base position, the
\* candidate of the first offset 0, whose box is appended.
C10_FallbackIsBasePosition ==
    /\ OffsetsInOrder
    /\ \A j \in 1..Len(label_boxes) :
          /\ FirstFreeUsed(j)
          /\ labels[j].accepted = 0 =>
                /\ Exhausted(j)
                /\ labels[j].label_top = labels[j].base_top
                /\ label_boxes[j] = CandidateOf(j, 1)

\* a search ran out of offsets where the base position and the candidate of
\* the last offset differ
C10_Witness ==
    \E j \in 1..Len(label_boxes) :
        /\ Exhausted(j)
        /\ CandidateOf(j, 1) # CandidateOf(j, Len(label_position_offsets))
        /\ label_boxes[j] = CandidateOf(j, 1)

(***************************************************************************)
(* Properties of a single label (checked under SpecLabel).  Horizontal     *)
(* quantities are times n - 1, vertical ones times star_range.             *)
(***************************************************************************)
\* the 0-based index in the series of the point of the j-th label
PointIndexOf(j) ==
    (CHOOSE i \in 1..Len(star_history) : star_history[i].date = labels[j].date) - 1

\* the x of the point of the j-th label
PointXOf(j) == get_x(PointIndexOf(j), Len(star_history))

\* the names created on the date of the j-th label
NamesOf(j) == repo_creations[labels[j].date]

\* the length of the longest line of the j-th label: two characters and the
\* name for every repository, then the date
LongestLineOf(j) ==
    LET names == NamesOf(j)
        lens == { 2 + Len(names[i]) : i \in 1..Len(names) } \cup { Len(labels[j].date) }
    IN  CHOOSE m \in lens : \A l \in lens : l <= m

\* clamp(6 x longest line length, 80, 220) for the j-th label
ClampedWidthOf(j) ==
    LET w == 6 * LongestLineOf(j)
    IN  IF w < 80 THEN 80 ELSE IF w > 220 THEN 220 ELSE w

\* C11: a label is placed to the right of its point (anchor start) exactly
\* when its right edge, x + 12 + label_width, does not exceed width -
\* padding_right, and to the left (anchor end) otherwise; so no right-placed
\* label box has x_max greater than width - padding_right.
C11_RightExactlyWhenItFits ==
    \A j \in 1..Len(labels) :
        LET sx == Len(star_history) - 1
            limit == (width - padding_right) * sx
            right_edge == PointXOf(j) + (12 + ClampedWidthOf(j)) * sx
        IN  /\ labels[j].text_anchor \in {"start", "end"}
            /\ labels[j].text_anchor = "start" <=> right_edge <= limit
            /\ labels[j].text_anchor = "start" => labels[j].label_box[2] <= limit

\* C12 as stated: a label for k names has k + 1 lines; its recorded box is
\* clamp(6 x longest line, 80, 220) wide and line_count x 12 high; with
\* long names it is exactly 220 wide.
C12_BoxIsTextSize ==
    \A j \in 1..Len(labels) :
        LET sx == Len(star_history) - 1
            sy == StarRange(star_history)
            box == labels[j].label_box
        IN  /\ labels[j].lines = Len(NamesOf(j)) + 1
            /\ box[2] - box[1] = ClampedWidthOf(j) * sx
            /\ box[4] - box[3] = labels[j].lines * 12 * sy
            /\ (\E i \in 1..Len(NamesOf(j)) : Len(NamesOf(j)[i]) >= 40)
                    => box[2] - box[1] = 220 * sx

\* C12 amended: a label for k names has k + 1 lines; its recorded box is
\* clamp(6 x longest line, 80, 220) wide and line_count x 12 plus twice the
\* label padding of 4 high, the text's height being line_count x 12, from
\* label_top to the box's bottom less the padding; with long names it is
\* exactly 220 wide.
C12_BoxIsPaddedTextSize ==
    \A j \in 1..Len(labels) :
        LET sx == Len(star_history) - 1
            sy == StarRange(star_history)
            box == labels[j].label_box
        IN  /\ labels[j].lines = Len(NamesOf(j)) + 1
            /\ box[2] - box[1] = ClampedWidthOf(j) * sx
            /\ box[4] - box[3] = (labels[j].lines * 12 + 2 * 4) * sy
            /\ box[3] = labels[j].label_top - 4 * sy
            /\ box[4] - 4 * sy - labels[j].label_top = labels[j].lines * 12 * sy
            /\ (\E i \in 1..Len(NamesOf(j)) : Len(NamesOf(j)[i]) >= 40)
                    => box[2] - box[1] = 220 * sx

\* two labels are placed: one of several names, the first long, whose box is
\* 220 wide, and one of a single name whose box is neither 80 nor 220 wide
C12_Witness ==
    /\ svg_pc = "returned"
    /\ \E j, k \in 1..Len(labels) :
          LET sx == Len(star_history) - 1
          IN  /\ Len(NamesOf(j)) >= 2 /\ Len(NamesOf(j)[1]) >= 40
              /\ labels[j].label_box[2] - labels[j].label_box[1] = 220 * sx
              /\ labels[j].lines = Len(NamesOf(j)) + 1
              /\ Len(NamesOf(k)) = 1
              /\ labels[k].label_box[2] - labels[k].label_box[1] = 192 * sx

\* C15: every placed label box, accepted candidate or fallback, lies within
\* the chart's vertical bounds: padding_top <= y_min and
\* y_max <= padding_top + chart_height, however many repositories were
\* created on the date.
C15_BoxWithinChart ==
    \A j \in 1..Len(labels) :
        LET sy == StarRange(star_history)
            box == labels[j].label_box
        IN  /\ padding_top * sy <= box[3]
            /\ box[4] <= (padding_top + chart_height) * sy

(***************************************************************************)
(* Properties of generate_readme (checked under SpecReadme).               *)
(***************************************************************************)
ReadmeDone == rd_pc = "done"

\* C6: when no star events are collected the series is empty (also for a
\* non-empty creation index), and for a series of fewer than two points no
\* chart is produced: generate_star_trend_svg returns "", generate_readme
\* writes and removes no star-history file and the document has no chart
\* section.
C6_NoChartBelowTwoPoints ==
    ReadmeDone =>
        /\ all_stargazers = <<>> => star_history = <<>>
        /\ Cumulative(<<>>, repo_creations) = <<>>
        /\ Len(star_history) < 2 =>
              /\ SvgText(star_history) = ""
              /\ star_chart_svg = ""
              /\ star_chart_filename = <<>>
              /\ files = files_before /\ removed = {} /\ remove_failed = {}
              /\ readme_chart = <<>>

\* a run with a one-point series and a creation date, in a directory that
\* holds chart files, has ended without a chart
C6_Witness ==
    /\ ReadmeDone
    /\ Len(star_history) = 1
    /\ DOMAIN repo_creations # {}
    /\ files_before # {}
    /\ files = files_before /\ readme_chart = <<>>

\* C7: a run with at least two series points writes one file
\* star-history-<timestamp>.svg and removes every other star-history file,
\* so that when the removals succeed exactly the file just written remains;
\* a run with fewer than two points writes and removes no file.
C7_OnlyTheNewFileRemains ==
    ReadmeDone =>
        IF Len(star_history) >= 2
        THEN /\ star_chart_filename \in FileNames
             /\ removed \cup remove_failed = files_before \ {star_chart_filename}
             /\ remove_failed = {} => files = {star_chart_filename}
        ELSE /\ star_chart_filename = <<>>
             /\ removed = {}
             /\ files = files_before

\* C14: after a run that embeds a chart, the file named in the document's
\* chart link (the file written in that run) exists in the directory,
\* whatever star-history files the directory held before the run.
C14_LinkedFileExists ==
    (ReadmeDone /\ readme_chart # <<>>) =>
        /\ readme_chart = star_chart_filename
        /\ readme_chart \in files

\* the declared stargazers_count of the fetched repository called name
DeclaredCount(name) ==
    LET i == CHOOSE k \in 1..Len(repos) : repos[k].name = name
    IN  repos[i].stargazers_count

\* C8: a pinned repository's ranking_score is its stargazers_count plus 6, an
\* unpinned one's is its stargazers_count; the bonus changes the order only:
\* every repository keeps its stargazers_count, every row of the table shows
\* the stargazers_count, and total_stars is what it is with nothing pinned.
C8_PinBonusOnlyForOrder ==
    rd_pc \in {"ranked", "aggregated", "done"} =>
        /\ \A i \in 1..Len(own_repos) :
              /\ own_repos[i].ranking_score =
                    own_repos[i].stargazers_count
                        + (IF own_repos[i].name \in pinned_repo_names THEN 6 ELSE 0)
              /\ own_repos[i].stargazers_count = DeclaredCount(own_repos[i].name)
        /\ total_stars = TotalStars(Ranked(OwnRepos(repos), {}))
        /\ ReadmeDone =>
              /\ Len(readme_rows) = Len(top_repos)
              /\ \A i \in 1..Len(readme_rows) :
                    /\ readme_rows[i].name = top_repos[i].name
                    /\ readme_rows[i].stars = DeclaredCount(readme_rows[i].name)

\* a pinned repository is listed above an unpinned one that has more stars,
\* and its row shows its stars, not its score
C8_Witness ==
    /\ ReadmeDone /\ ~use_mock
    /\ Len(readme_rows) = 2
    /\ top_repos[1].is_pinned /\ ~top_repos[2].is_pinned
    /\ readme_rows[1].stars < readme_rows[2].stars
    /\ readme_rows[1].stars # top_repos[1].ranking_score

====
